---- MODULE Spec2Model ----
(***************************************************************************)
(* Model of the stock comparison application: the Google Finance text      *)
(* parser (google_data_source.py), the fetch-or-cache pipeline and the     *)
(* graph pane metrics (plot.py), and the worker threads started by the     *)
(* Plot Stocks button (widgets.py).                                        *)
(*                                                                         *)
(* Text is modelled as sequences of one-character strings, so that         *)
(* splitting, marker stripping, integer parsing and key formatting are     *)
(* computed the way the code computes them.                                *)
(***************************************************************************)
EXTENDS Integers, Sequences, FiniteSets, TLC

VARIABLES
    data,        \* parser scenario: the response body after split('\n')
    parsed,      \* parser scenario: outcome of get_google_data_for_stock
    ppc,         \* parser scenario: "input" | "parsed" | "off"
    ddf1, ddf2,  \* metrics scenario: the two data frames handed to a pane
    dpane,       \* metrics scenario: the graph pane
    dpc,         \* metrics scenario: "input" | "drawn" | "off"
    now,         \* wall clock, seconds
    ticks,       \* number of clock advances so far
    clicks,      \* number of Plot Stocks clicks so far
    cache,       \* the file system cache: a set of entries
    panes,       \* graph_pane_collection.graphs
    workers,     \* the render_new threads: position and locals of each
    fetched,     \* history: keys downloaded since their entry last expired or was evicted
    refetched,   \* history: keys downloaded again although in fetched
    cs           \* cache scenario: position, and the cache before the last set

pvars == <<data, parsed, ppc>>

dvars == <<ddf1, ddf2, dpane, dpc>>

svars == <<now, ticks, clicks, cache, panes, workers, fetched, refetched>>

vars == <<data, parsed, ppc, ddf1, ddf2, dpane, dpc,
          now, ticks, clicks, cache, panes, workers, fetched, refetched, cs>>

----------------------------------------------------------------------------
(* Text helpers *)

Digits == {"0", "1", "2", "3", "4", "5", "6", "7", "8", "9"}

DigitVal(c) ==
    CASE c = "0" -> 0 [] c = "1" -> 1 [] c = "2" -> 2 [] c = "3" -> 3
      [] c = "4" -> 4 [] c = "5" -> 5 [] c = "6" -> 6 [] c = "7" -> 7
      [] c = "8" -> 8 [] c = "9" -> 9

AllDigits(s) == Len(s) > 0 /\ \A i \in 1..Len(s) : s[i] \in Digits

RECURSIVE NatVal(_)
NatVal(s) ==
    IF Len(s) = 0 THEN 0
    ELSE 10 * NatVal(SubSeq(s, 1, Len(s) - 1)) + DigitVal(s[Len(s)])

\* int(s): an optional sign followed by decimal digits; anything else raises
\* ValueError.  (Surrounding blanks and '_' are outside the alphabet used.)
IntOk(s) ==
    /\ Len(s) > 0
    /\ IF s[1] \in {"-", "+"} THEN AllDigits(Tail(s)) ELSE AllDigits(s)

IntVal(s) ==
    IF s[1] = "-" THEN 0 - NatVal(Tail(s))
    ELSE IF s[1] = "+" THEN NatVal(Tail(s))
    ELSE NatVal(s)

\* float(s) on the same alphabet accepts exactly what int(s) accepts.
FloatOk(s) == IntOk(s)

FloatVal(s) == IntVal(s)

\* str.split(sep): always at least one field, '' for an empty string.
RECURSIVE Split(_, _)
Split(s, sep) ==
    IF \A i \in 1..Len(s) : s[i] # sep THEN <<s>>
    ELSE LET k == CHOOSE i \in 1..Len(s) :
                      s[i] = sep /\ \A j \in 1..(i - 1) : s[j] # sep
         IN  <<SubSeq(s, 1, k - 1)>> \o Split(SubSeq(s, k + 1, Len(s)), sep)

\* 'a' in s
Contains(s, c) == \E i \in 1..Len(s) : s[i] = c

\* s.replace(c, '')
RECURSIVE Strip(_, _)
Strip(s, c) ==
    IF Len(s) = 0 THEN <<>>
    ELSE (IF s[1] = c THEN <<>> ELSE <<s[1]>>) \o Strip(Tail(s), c)

----------------------------------------------------------------------------
(* google_data_source.py: get_google_data_for_stock, after the download *)

PreambleLines == 7

IntervalSeconds == 86400

\* dt.datetime.fromtimestamp(float(c_ts)): the calendar value of the instant,
\* kept as day number and second of the day.
FromTimestamp(c_ts) == [day |-> c_ts \div 86400, sec |-> c_ts % 86400]

\* The body of the try block succeeds: int(c_data[0]), int(anchor_stamp),
\* c_data[1..5] exist and each converts with float().
RowParses(c_data, anchor_stamp) ==
    /\ IntOk(c_data[1])
    /\ IntOk(anchor_stamp)
    /\ Len(c_data) >= 6
    /\ \A j \in 2..6 : FloatOk(c_data[j])

RowTuple(c_data, anchor_stamp, interval_seconds) ==
    LET coffset == IntVal(c_data[1])
        c_ts    == IntVal(anchor_stamp) + (coffset * interval_seconds)
    IN  [ts     |-> FromTimestamp(c_ts),
         Close  |-> FloatVal(c_data[2]),
         High   |-> FloatVal(c_data[3]),
         Low    |-> FloatVal(c_data[4]),
         Open   |-> FloatVal(c_data[5]),
         Volume |-> FloatVal(c_data[6])]

\* The marker test of line 43.
IsAnchorLine(c_data) == Contains(c_data[1], "a")

\* The for loop of lines 41-53 from (1-based) line i on.  An anchor line
\* whose remainder is no integer raises out of the function: int() of line
\* 46 is outside the try block.
RECURSIVE ParseLoop(_, _, _, _, _)
ParseLoop(lines, i, anchor_stamp, parsd_data, interval_seconds) ==
    IF i > Len(lines) THEN [exc |-> "none", rows |-> parsd_data]
    ELSE LET c_data == Split(lines[i], ",") IN
         IF IsAnchorLine(c_data)
         THEN LET stamp == Strip(c_data[1], "a") IN
              IF IntOk(stamp)
              THEN ParseLoop(lines, i + 1, stamp, parsd_data, interval_seconds)
              ELSE [exc |-> "ValueError", rows |-> <<>>]
         ELSE IF RowParses(c_data, anchor_stamp)
              THEN ParseLoop(lines, i + 1, anchor_stamp,
                             Append(parsd_data,
                                    RowTuple(c_data, anchor_stamp, interval_seconds)),
                             interval_seconds)
              ELSE ParseLoop(lines, i + 1, anchor_stamp, parsd_data,
                             interval_seconds)

\* A frame that accepts an empty row list (what the code would do if the column
\* names were passed to the constructor).
MakeFrame_AcceptsEmpty(parsd_data) == [exc |-> "none", df |-> parsd_data]

\* pd.DataFrame(parsd_data) followed by the assignment of six column names:
\* a frame built from no rows has no columns and the assignment raises
\* ValueError (length mismatch).
MakeFrame(parsd_data) ==
    IF Len(parsd_data) = 0
    THEN [exc |-> "ValueError", df |-> <<>>]
    ELSE [exc |-> "none", df |-> parsd_data]

\* Lines 33-58: the outcome for a downloaded body already split into lines.
GetData(lines, interval_seconds) ==
    LET r == ParseLoop(lines, PreambleLines + 1, <<>>, <<>>, interval_seconds)
    IN  IF r.exc # "none" THEN [exc |-> r.exc, df |-> <<>>]
        ELSE MakeFrame(r.rows)

----------------------------------------------------------------------------
(* Response bodies used as inputs *)

MaxRows == 3

HeaderLine == <<"E", "X">>

LineA1    == <<"a", "1">>
LineA3    == <<"a", "3">>
LineRow0  == <<"0", ",", "2", ",", "3", ",", "1", ",", "2", ",", "5">>
LineRow1  == <<"1", ",", "3", ",", "4", ",", "2", ",", "1", ",", "6">>
LineTz    == <<"T", "Z", "=", "1">>
LineNa    == <<"n", "a", ",", "2", ",", "3", ",", "1", ",", "2", ",", "5">>
LineMidA  == <<"1", "a", "2">>
LineShort == <<"1", ",", "2">>
LineBadF  == <<"0", ",", "x", ",", "3", ",", "1", ",", "2", ",", "5">>
LineEmpty == <<>>

RowPool == {LineA1, LineA3, LineRow0, LineRow1, LineTz, LineNa, LineMidA,
            LineShort, LineBadF, LineEmpty}

SeqsUpTo(S, n) == UNION {[1..k -> S] : k \in 0..n}

Preamble(n) == [i \in 1..n |-> HeaderLine]

Bodies == {Preamble(n) \o rows :
              n \in 0..PreambleLines, rows \in SeqsUpTo(RowPool, MaxRows)}

NoResult == [exc |-> "pending", df |-> <<>>]

----------------------------------------------------------------------------
(* Parser scenario: one body is downloaded and parsed *)

InitParse ==
    /\ data \in Bodies
    /\ parsed = NoResult
    /\ ppc = "input"

\* No parser scenario is running.
ParseOff == data = <<>> /\ parsed = NoResult /\ ppc = "off"

ParseResponse ==
    /\ ppc = "input"
    /\ parsed' = GetData(data, IntervalSeconds)
    /\ ppc' = "parsed"
    /\ UNCHANGED <<data, dvars, svars, cs>>

NextParse == ParseResponse

----------------------------------------------------------------------------
(* plot.py: GraphPane.draw.  Prices are floats; a percentage is kept as an  *)
(* exact fraction num/den (den > 0) or as one of the IEEE values the        *)
(* division of a float by a zero numpy.float64 produces.                    *)

Fin(num, den) ==
    IF den > 0 THEN [kind |-> "fin", num |-> num, den |-> den]
    ELSE [kind |-> "fin", num |-> 0 - num, den |-> 0 - den]

Special(k) == [kind |-> k, num |-> 0, den |-> 1]

\* float(diff) / open: numpy.float64 division, no exception on zero.
FDiv(diff, open) ==
    IF open # 0 THEN Fin(diff, open)
    ELSE IF diff > 0 THEN Special("inf")
    ELSE IF diff < 0 THEN Special("-inf")
    ELSE Special("nan")

\* x * 100
FTimes100(x) == IF x.kind = "fin" THEN Fin(x.num * 100, x.den) ELSE x

\* x == y
FEq(x, y) ==
    IF x.kind = "nan" \/ y.kind = "nan" THEN FALSE
    ELSE IF x.kind = "fin" /\ y.kind = "fin" THEN x.num * y.den = y.num * x.den
    ELSE x.kind = y.kind

\* x > y
FGt(x, y) ==
    IF x.kind = "nan" \/ y.kind = "nan" THEN FALSE
    ELSE IF x.kind = "fin" /\ y.kind = "fin" THEN x.num * y.den > y.num * x.den
    ELSE IF x.kind = y.kind THEN FALSE
    ELSE x.kind = "inf" \/ y.kind = "-inf"

\* x >= 0
FGeZero(x) == FEq(x, Fin(0, 1)) \/ FGt(x, Fin(0, 1))

\* Lines 225-251 for one stock: the line's first and last y value, their
\* difference, the percentage and the sign and colour of the label.
ChangeOf(line) ==
    LET stock_open  == line.y[1]
        stock_close == line.y[Len(line.y)]
        diff        == stock_close - stock_open
        per_change  == FTimes100(FDiv(diff, stock_open))
    IN  [diff  |-> diff,
         per   |-> per_change,
         sign  |-> IF FGeZero(per_change) THEN "+" ELSE "-",
         color |-> IF FGeZero(per_change) THEN "green" ELSE "red"]

\* A comparison that declares the first stock best on equality too.
BestOf_GreaterOrEqual(per_change_1, per_change_2) ==
    IF FGt(per_change_1, per_change_2) \/ FEq(per_change_1, per_change_2)
    THEN "stock_1_code" ELSE "stock_2_code"

\* Lines 253-271: which label text is shown as BEST.
BestOf(per_change_1, per_change_2) ==
    IF FEq(per_change_1, per_change_2) THEN "NEITHER"
    ELSE IF FGt(per_change_1, per_change_2) THEN "stock_1_code"
    ELSE "stock_2_code"

\* GraphPane as constructed (lines 164-209).
NewPane ==
    [time_period |-> <<"1", "M">>, title |-> <<>>, line1 |-> <<>>, line2 |-> <<>>,
     change1 |-> <<>>, change2 |-> <<>>, best |-> ""]

\* GraphPane.draw(line1, line2), lines 211-271.
Draw(pane, line1, line2) ==
    LET c1 == ChangeOf(line1)
        c2 == ChangeOf(line2)
    IN  [pane EXCEPT !.title = pane.time_period,
                     !.line1 = line1, !.line2 = line2,
                     !.change1 = c1, !.change2 = c2,
                     !.best = BestOf(c1.per, c2.per)]

\* (df.index, df.Close) of plot_stocks lines 91 and 97.
CloseLine(df) ==
    [x |-> [i \in 1..Len(df) |-> df[i].ts],
     y |-> [i \in 1..Len(df) |-> df[i].Close]]

----------------------------------------------------------------------------
(* Metrics scenario: one pane draws a pair of frames *)

MaxPoints == 2

MaxPrice == 2

PricePoint(k, close, open) ==
    [ts |-> FromTimestamp(k * IntervalSeconds), Close |-> close,
     High |-> close, Low |-> open, Open |-> open, Volume |-> 0]

Frames ==
    UNION {{[i \in 1..n |-> PricePoint(i, f[i][1], f[i][2])] :
               f \in [1..n -> (0..MaxPrice) \X (0..MaxPrice)]} : n \in 1..MaxPoints}

InitDraw ==
    /\ ddf1 \in Frames
    /\ ddf2 \in Frames
    /\ dpane = NewPane
    /\ dpc = "input"

\* No metrics scenario is running.
DrawOff == ddf1 = <<>> /\ ddf2 = <<>> /\ dpane = NewPane /\ dpc = "off"

\* plot_stocks lines 88-103 for one pane.
PlotPane ==
    /\ dpc = "input"
    /\ dpane' = Draw(dpane, CloseLine(ddf1), CloseLine(ddf2))
    /\ dpc' = "drawn"
    /\ UNCHANGED <<ddf1, ddf2, pvars, svars, cs>>

NextDraw == PlotPane

----------------------------------------------------------------------------
(* plot.py line 25: the werkzeug FileSystemCache.  An entry is a file       *)
(* holding its expiry time and the pickled value.                           *)

EXPIRY_SECONDS == 86400

THRESHOLD == 100

\* Python's None, as returned by cache.get and appended on line 60 / 74.
None == [none |-> TRUE]

HasEntry(c, key) == \E e \in c : e.key = key

EntryOf(c, key) == CHOOSE e \in c : e.key = key

\* A cache whose get never looks at the expiry time.
CacheGet_NoExpiry(c, key, t) ==
    IF HasEntry(c, key) THEN EntryOf(c, key).value ELSE None

\* cache.get(key) at time t: the value of an entry that has not expired.
CacheGet(c, key, t) ==
    IF HasEntry(c, key) /\ EntryOf(c, key).expires >= t
    THEN EntryOf(c, key).value
    ELSE None

\* The files after cache.get(key) at time t: an expired entry is deleted.
CacheAfterGet(c, key, t) == {e \in c : ~(e.key = key /\ e.expires < t)}

\* The files in the order they were written (no two in the same second).
ByAge(c) ==
    [j \in 1..Cardinality(c) |->
        CHOOSE e \in c : Cardinality({y \in c : y.storedAt < e.storedAt}) = j - 1]

Rotate(l, r) == [j \in 1..Len(l) |-> l[((j - 1 + r) % Len(l)) + 1]]

\* Number of directory orders tried for one _prune.
ListingShifts == 3

\* The directory listings _prune may see: the order matters only when it
\* deletes, that is with more than THRESHOLD files.  The order of a
\* directory is not fixed by the code; the orders tried are the rotations of
\* the age order, which put every file at each position modulo 3.
Listings(c) ==
    IF Cardinality(c) > THRESHOLD
    THEN LET l == ByAge(c) IN {Rotate(l, r) : r \in 0..(ListingShifts - 1)}
    ELSE {<<>>}

\* A cache that makes room before a write by deleting the one oldest file
\* once THRESHOLD files are held.
Prune_OldestFirst(c, t, listing) ==
    IF Cardinality(c) >= THRESHOLD
    THEN c \ {CHOOSE x \in c : \A y \in c : x.storedAt <= y.storedAt}
    ELSE c

\* _prune at time t: with more than THRESHOLD files, every expired file and
\* every third file of the listing is deleted.
Prune(c, t, listing) ==
    IF Cardinality(c) > THRESHOLD
    THEN {listing[i] : i \in {j \in 1..Len(listing) :
                                 ~(listing[j].expires <= t \/ (j - 1) % 3 = 0)}}
    ELSE c

\* The file cache.set writes at time t.
Written(key, value, t) ==
    [key |-> key, expires |-> t + EXPIRY_SECONDS, value |-> value,
     storedAt |-> t]

\* cache.set(key, value) at time t: prune, then write the file atomically
\* with expiry t + default_timeout.  storedAt notes the time of the write.
CacheSet(c, key, value, t, listing) ==
    {e \in Prune(c, t, listing) : e.key # key} \cup {Written(key, value, t)}

----------------------------------------------------------------------------
(* Inputs of an invocation: what render_new reads from the widgets *)

NGraphs == 3

StockAB_C == [gf_code |-> <<"A", ":", "B">>, gf_index |-> <<"C">>]

StockA_BC == [gf_code |-> <<"A">>, gf_index |-> <<"B", ":", "C">>]

StockZ_C == [gf_code |-> <<"Z">>, gf_index |-> <<"C">>]

Period1M == <<"1", "M">>

Period5d == <<"5", "d">>

\* Two settings of the widgets: they differ in the first time period, share
\* one stock, and the second compares two stocks whose code and index differ.
RequestA ==
    [stock_1 |-> StockZ_C, stock_2 |-> StockAB_C,
     time_periods |-> <<Period1M, Period5d, Period1M>>]

RequestB ==
    [stock_1 |-> StockAB_C, stock_2 |-> StockA_BC,
     time_periods |-> <<Period5d, Period5d, Period1M>>]

Requests == {RequestA, RequestB}

\* "{0}:{1}.{2}".format(gf_code, gf_index, tp), lines 44-55.
CacheKey(stock, tp) == stock.gf_code \o <<":">> \o stock.gf_index \o <<".">> \o tp

\* What urlopen and read deliver: URLError, or a body.
GoodBody == Preamble(PreambleLines) \o <<LineA1, LineRow0, LineRow1>>

EmptyBody == Preamble(PreambleLines)

Downloads == {<<"URLError">>, GoodBody, EmptyBody}

----------------------------------------------------------------------------
(* widgets.py: PlotStockButton.render_new and plot.py: plot_stocks, one     *)
(* thread per click.  Each cache call, each download and each pane update   *)
(* is one step.                                                             *)

MaxWorkers == 2

MaxClicks == 2

MaxTicks == 1

Workers == 1..MaxWorkers

\* failed, writes and shown are history fields: the exception a download of
\* this invocation ended with, the number of pane updates it made, and for
\* each pane it drew the title drawn and the downloads the two lines came from,
\* the (side, period) positions it has downloaded for, whether one of them was
\* downloaded twice, and whether it touched the cache or the network after a
\* failed download.
IdleWorker ==
    [pc |-> "idle", side |-> 1, idx |-> 1, req |-> <<>>, dfs1 |-> <<>>,
     dfs2 |-> <<>>, outcome |-> "none", failed |-> "none", writes |-> 0,
     shown |-> <<>>, tried |-> {}, again |-> FALSE, late |-> 0]

\* render_new lines 254-271 up to the first cache lookup of plot_stocks.
Started(req) ==
    [IdleWorker EXCEPT !.pc = "check", !.req = req]

StockOf(ws) == IF ws.side = 1 THEN ws.req.stock_1 ELSE ws.req.stock_2

PeriodOf(ws) == ws.req.time_periods[ws.idx]

KeyOf(ws) == CacheKey(StockOf(ws), PeriodOf(ws))

\* data_frames_stock1.append / data_frames_stock2.append
Appended(ws, df) ==
    IF ws.side = 1 THEN [ws EXCEPT !.dfs1 = Append(@, df)]
    ELSE [ws EXCEPT !.dfs2 = Append(@, df)]

LastFrame(ws) ==
    IF ws.side = 1 THEN ws.dfs1[Len(ws.dfs1)] ELSE ws.dfs2[Len(ws.dfs2)]

\* One cache read, cache write or download of plot_stocks (lines 58, 60, 64,
\* 66, 72, 74, 78, 80), noted when it comes after a failed download.
Touch(ws) == [ws EXCEPT !.late = IF ws.failed # "none" THEN 1 ELSE @]

\* One call of get_google_data_for_stock (lines 64, 78) for the current
\* side and period.
Download(ws) ==
    [Touch(ws) EXCEPT !.tried = @ \cup {<<ws.side, ws.idx>>},
                      !.again = @ \/ <<ws.side, ws.idx>> \in ws.tried]

\* Control after one side of one period is resolved: the other side, the
\* next period, or the pane loop of line 86.
Advance(ws) ==
    IF ws.side = 1 THEN [ws EXCEPT !.side = 2, !.pc = "check"]
    ELSE IF ws.idx < Len(ws.req.time_periods)
         THEN [ws EXCEPT !.side = 1, !.idx = @ + 1, !.pc = "check"]
         ELSE [ws EXCEPT !.side = 1, !.idx = 1, !.pc = "label"]

\* An uncaught exception ends the thread: nothing is shown.
Crashed(ws) == [ws EXCEPT !.pc = "done", !.outcome = "crash"]

\* A handler in plot_stocks that swallows ValueError and carries on with
\* the next side.
OnValueError_CarryOn(ws) == Advance([ws EXCEPT !.failed = "ValueError"])

\* A handler that answers ValueError by downloading the same data again.
OnValueError_Retry(ws) == [ws EXCEPT !.pc = "fetch", !.failed = "ValueError"]

\* except ValueError: return False (lines 67-69, 81-83); render_new then
\* shows the "Invalid Stocks" box (lines 274-282).
OnValueError(ws) ==
    [ws EXCEPT !.pc = "done", !.outcome = "invalid", !.failed = "ValueError"]

\* URLError passes through plot_stocks; render_new shows the "Network
\* Error" box (lines 283-291).
OnURLError(ws) ==
    [ws EXCEPT !.pc = "done", !.outcome = "network", !.failed = "URLError"]

InitSys ==
    /\ now = 0
    /\ ticks = 0
    /\ clicks = 0
    /\ cache = {}
    /\ panes = [i \in 1..NGraphs |-> NewPane]
    /\ workers = [w \in Workers |-> IdleWorker]
    /\ fetched = {}
    /\ refetched = {}

\* on_click: a new daemon thread runs render_new.
Click ==
    /\ clicks < MaxClicks
    /\ \E w \in Workers :
        /\ workers[w].pc \in {"idle", "done"}
        /\ \A v \in Workers : v < w => workers[v].pc \notin {"idle", "done"}
        /\ \E req \in Requests : workers' = [workers EXCEPT ![w] = Started(req)]
    /\ clicks' = clicks + 1
    /\ UNCHANGED <<now, ticks, cache, panes, fetched, refetched, pvars, dvars, cs>>

\* Lines 58 and 72: if cache.get(key) is not None.
Check(w) ==
    LET ws == workers[w] IN
    /\ ws.pc = "check"
    /\ workers' = [workers EXCEPT ![w] =
           [Touch(ws) EXCEPT !.pc = IF CacheGet(cache, KeyOf(ws), now) # None
                                    THEN "hit" ELSE "fetch"]]
    /\ cache' = CacheAfterGet(cache, KeyOf(ws), now)
    /\ UNCHANGED <<now, ticks, clicks, panes, fetched, refetched, pvars, dvars, cs>>

\* Lines 60 and 74: append(cache.get(key)), a second lookup.
HitGet(w) ==
    LET ws == workers[w] IN
    /\ ws.pc = "hit"
    /\ workers' = [workers EXCEPT ![w] =
           Advance(Appended(Touch(ws), CacheGet(cache, KeyOf(ws), now)))]
    /\ cache' = CacheAfterGet(cache, KeyOf(ws), now)
    /\ UNCHANGED <<now, ticks, clicks, panes, fetched, refetched, pvars, dvars, cs>>

\* Lines 64-65 and 78-79, with the handlers of lines 67-69 and 81-83.
Fetch(w) ==
    LET ws == workers[w] IN
    /\ ws.pc = "fetch"
    /\ \E body \in Downloads :
        IF body = <<"URLError">>
        THEN /\ workers' = [workers EXCEPT ![w] = OnURLError(Download(ws))]
             /\ UNCHANGED <<fetched, refetched>>
        ELSE LET r == GetData(body, IntervalSeconds) IN
             IF r.exc = "ValueError"
             THEN /\ workers' = [workers EXCEPT ![w] = OnValueError(Download(ws))]
                  /\ UNCHANGED <<fetched, refetched>>
             ELSE /\ workers' = [workers EXCEPT ![w] =
                         [Appended(Download(ws),
                                   [of |-> <<StockOf(ws), PeriodOf(ws)>>,
                                    rows |-> r.df])
                              EXCEPT !.pc = "set"]]
                  /\ fetched' = fetched \cup {KeyOf(ws)}
                  /\ refetched' = refetched \cup ({KeyOf(ws)} \cap fetched)
    /\ UNCHANGED <<now, ticks, clicks, cache, panes, pvars, dvars, cs>>

\* Lines 66 and 80: cache.set(key, df).
Store(w) ==
    LET ws == workers[w] IN
    /\ ws.pc = "set"
    /\ \E listing \in Listings(cache) :
        /\ cache' = CacheSet(cache, KeyOf(ws), LastFrame(ws), now, listing)
        /\ fetched' = fetched \ {e.key : e \in cache \ Prune(cache, now, listing)}
    /\ workers' = [workers EXCEPT ![w] = Advance(Touch(ws))]
    /\ UNCHANGED <<now, ticks, clicks, panes, refetched, pvars, dvars, cs>>

\* Lines 86-100 for pane idx: index both lists, read .index and .Close
\* (AttributeError on None, IndexError on a short list), set time_period.
Label(w) ==
    LET ws == workers[w] IN
    /\ ws.pc = "label"
    /\ IF \/ ws.idx > Len(ws.dfs1) \/ ws.idx > Len(ws.dfs2)
          \/ ws.idx > Len(ws.req.time_periods)
       THEN /\ workers' = [workers EXCEPT ![w] = Crashed(ws)]
            /\ UNCHANGED panes
       ELSE IF ws.dfs1[ws.idx] = None \/ ws.dfs2[ws.idx] = None
       THEN /\ workers' = [workers EXCEPT ![w] = Crashed(ws)]
            /\ UNCHANGED panes
       ELSE /\ panes' = [panes EXCEPT ![ws.idx].time_period = PeriodOf(ws)]
            /\ workers' = [workers EXCEPT ![w] =
                   [ws EXCEPT !.pc = "draw", !.writes = @ + 1]]
    /\ UNCHANGED <<now, ticks, clicks, cache, fetched, refetched, pvars, dvars, cs>>

\* Line 103 for pane idx, then the next pane or return True (line 106).
DrawPane(w) ==
    LET ws == workers[w]
        df1 == ws.dfs1[ws.idx]
        df2 == ws.dfs2[ws.idx]
    IN
    /\ ws.pc = "draw"
    /\ panes' = [panes EXCEPT ![ws.idx] =
           Draw(@, CloseLine(df1.rows), CloseLine(df2.rows))]
    /\ workers' = [workers EXCEPT ![w] =
           LET drawn == [ws EXCEPT !.writes = @ + 1,
                                   !.shown = Append(@, [title |-> panes[ws.idx].time_period,
                                                        src1 |-> df1.of, src2 |-> df2.of])]
           IN  IF ws.idx < Len(panes)
               THEN [drawn EXCEPT !.pc = "label", !.idx = @ + 1]
               ELSE [drawn EXCEPT !.pc = "done", !.outcome = "success"]]
    /\ UNCHANGED <<now, ticks, clicks, cache, fetched, refetched, pvars, dvars, cs>>

\* Time passes: to just before, or to just after, the expiry of what was
\* stored at the previous instant.
Tick ==
    /\ ticks < MaxTicks
    /\ \E d \in {EXPIRY_SECONDS - 1, EXPIRY_SECONDS + 1} :
        /\ now' = now + d
        /\ fetched' = fetched \ {e.key : e \in {x \in cache : x.expires < now + d}}
    /\ ticks' = ticks + 1
    /\ UNCHANGED <<clicks, cache, panes, workers, refetched, pvars, dvars, cs>>

----------------------------------------------------------------------------
(* The cache on its own: a directory filled up to the threshold, then       *)
(* further cache.set calls as plot_stocks makes them, with time passing.    *)

MaxPuts == 3

MaxWaits == 2

DigitChar(d) == CHOOSE ch \in Digits : DigitVal(ch) = d

\* str(n)
RECURSIVE NatText(_)
NatText(n) ==
    IF n < 10 THEN <<DigitChar(n)>>
    ELSE NatText(n \div 10) \o <<DigitChar(n % 10)>>

\* The n-th stock typed by the user, and what is stored for it.
StockNo(n) == [gf_code |-> NatText(n), gf_index |-> <<"C">>]

KeyNo(n) == CacheKey(StockNo(n), Period1M)

FrameNo(n) ==
    [of |-> <<StockNo(n), Period1M>>,
     rows |-> GetData(GoodBody, IntervalSeconds).df]

\* The cache after stocks 1..n were stored, one per second: with n at most
\* THRESHOLD no cache.set among them has pruned.
Fill(n) == {Written(KeyNo(i), FrameNo(i), i) : i \in 1..n}

NoPut == [pc |-> "off", puts |-> 0, waits |-> 0, before |-> {}, key |-> <<>>]

CacheOff == cs = NoPut

InitCache ==
    /\ \E n \in {THRESHOLD - 1, THRESHOLD} :
        /\ cache = Fill(n)
        /\ now = n
    /\ cs = [NoPut EXCEPT !.pc = "filled"]
    /\ ticks = 0
    /\ clicks = 0
    /\ panes = [i \in 1..NGraphs |-> NewPane]
    /\ workers = [w \in Workers |-> IdleWorker]
    /\ fetched = {}
    /\ refetched = {}

\* Stocks stored during the scenario: the oldest one again, and new ones.
PutStocks == {1} \cup (THRESHOLD..(THRESHOLD + MaxPuts))

\* cache.set(key, df) of lines 66 and 80, one second after the previous
\* cache operation.
CachePut ==
    /\ cs.pc \in {"filled", "put"}
    /\ cs.puts < MaxPuts
    /\ \E n \in PutStocks, listing \in Listings(cache) :
        /\ cache' = CacheSet(cache, KeyNo(n), FrameNo(n), now + 1, listing)
        /\ cs' = [cs EXCEPT !.pc = "put", !.puts = @ + 1,
                            !.before = cache, !.key = KeyNo(n)]
    /\ now' = now + 1
    /\ UNCHANGED <<ticks, clicks, panes, workers, fetched, refetched, pvars, dvars>>

\* Half the lifetime of an entry passes.
CacheWait ==
    /\ cs.pc \in {"filled", "put"}
    /\ cs.waits < MaxWaits
    /\ now' = now + EXPIRY_SECONDS \div 2
    /\ cs' = [cs EXCEPT !.pc = "filled", !.waits = @ + 1]
    /\ UNCHANGED <<ticks, clicks, cache, panes, workers, fetched, refetched, pvars, dvars>>

NextCache == CachePut \/ CacheWait

----------------------------------------------------------------------------
(* Specifications *)

\* The application: clicks, worker threads, the cache and the clock.
Init == InitSys /\ ParseOff /\ DrawOff /\ CacheOff

Next ==
    \/ Click
    \/ Tick
    \/ \E w \in Workers : Check(w)
    \/ \E w \in Workers : HitGet(w)
    \/ \E w \in Workers : Fetch(w)
    \/ \E w \in Workers : Store(w)
    \/ \E w \in Workers : Label(w)
    \/ \E w \in Workers : DrawPane(w)

Spec == Init /\ [][Next]_vars

\* One download parsed by get_google_data_for_stock.
InitParseOnly == InitParse /\ DrawOff /\ InitSys /\ CacheOff

SpecParse == InitParseOnly /\ [][NextParse]_vars

\* One pane drawing one pair of frames.
InitDrawOnly == InitDraw /\ ParseOff /\ InitSys /\ CacheOff

SpecDraw == InitDrawOnly /\ [][NextDraw]_vars

\* The cache alone.
InitCacheOnly == InitCache /\ ParseOff /\ DrawOff

SpecCache == InitCacheOnly /\ [][NextCache]_vars

----------------------------------------------------------------------------
(* Reference reading of the wire format, used to state the parser claims:  *)
(* an anchor line is the marker followed by an integer, a relative row is  *)
(* six numeric fields, everything else is a non-data row.                  *)

RemoveAt(seq, i) == SubSeq(seq, 1, i - 1) \o SubSeq(seq, i + 1, Len(seq))

FirstField(line) == Split(line, ",")[1]

WellFormedAnchor(line) ==
    LET f == FirstField(line) IN Len(f) > 0 /\ f[1] = "a" /\ IntOk(Tail(f))

RelativeRowShape(line) ==
    LET c == Split(line, ",") IN Len(c) = 6 /\ \A j \in 1..6 : IntOk(c[j])

NonNumericRow(line) == ~IntOk(FirstField(line)) /\ ~WellFormedAnchor(line)

RECURSIVE ClaimedPoints(_, _, _, _)
ClaimedPoints(lines, i, hasAnchor, T) ==
    IF i > Len(lines) THEN <<>>
    ELSE IF WellFormedAnchor(lines[i])
         THEN ClaimedPoints(lines, i + 1, TRUE, IntVal(Tail(FirstField(lines[i]))))
         ELSE IF hasAnchor /\ RelativeRowShape(lines[i])
              THEN LET c == Split(lines[i], ",") IN
                   <<[ts     |-> FromTimestamp(T + IntVal(c[1]) * IntervalSeconds),
                      Close  |-> IntVal(c[2]),
                      High   |-> IntVal(c[3]),
                      Low    |-> IntVal(c[4]),
                      Open   |-> IntVal(c[5]),
                      Volume |-> IntVal(c[6])]>>
                   \o ClaimedPoints(lines, i + 1, hasAnchor, T)
              ELSE ClaimedPoints(lines, i + 1, hasAnchor, T)

DataRows(lines) == (PreambleLines + 1)..Len(lines)

\* C3: a row after the preamble whose first field is non-numeric does not
\* make the fetch raise, adds no point, and leaves the other rows' points as
\* they are without it: the outcome equals the outcome for the body with
\* that row removed.
C3_MalformedRowTolerated ==
    ppc = "parsed" =>
        \A i \in DataRows(data) :
            NonNumericRow(data[i]) =>
                parsed = GetData(RemoveAt(data, i), IntervalSeconds)

\* C4: every relative row after an anchor yields exactly one point, at
\* T + k * intervalSeconds for the latest anchor T, with the fields in the
\* order close, high, low, open, volume: the frame is exactly the sequence of
\* these points.
C4_AnchorOffsetPoints ==
    ppc = "parsed" =>
        LET want == ClaimedPoints(data, PreambleLines + 1, FALSE, 0) IN
        want # <<>> => parsed = [exc |-> "none", df |-> want]

\* The same statement restricted to bodies in which every line whose first
\* field contains the marker is a well-formed anchor.
AnchorOffsetOnCleanBodies ==
    ppc = "parsed" =>
        LET want == ClaimedPoints(data, PreambleLines + 1, FALSE, 0) IN
        (\A i \in DataRows(data) :
             Contains(FirstField(data[i]), "a") => WellFormedAnchor(data[i]))
        => (want # <<>> => parsed = [exc |-> "none", df |-> want])

\* C5: a body with no row of relative-row shape after the first 7 lines
\* (including a body of at most the 7 preamble lines) fails with ValueError,
\* and a fetch never succeeds with zero points.
C5_EmptyResultFails ==
    ppc = "parsed" =>
        /\ parsed.exc = "none" => Len(parsed.df) >= 1
        /\ (\A i \in DataRows(data) : ~RelativeRowShape(data[i]))
               => parsed.exc = "ValueError"

C5_Witness ==
    /\ ppc = "parsed"
    /\ data = Preamble(PreambleLines)
    /\ parsed.exc = "ValueError"

----------------------------------------------------------------------------
(* Metrics claims *)

First(df) == df[1]

Last(df) == df[Len(df)]

\* C7: for each side, change = close of the last point minus OPEN of the
\* first point, and pctChange = 100 * change / open of the first point.
C7_ChangeFromFirstOpen ==
    dpc = "drawn" =>
        /\ dpane.change1.diff = Last(ddf1).Close - First(ddf1).Open
        /\ dpane.change2.diff = Last(ddf2).Close - First(ddf2).Open
        /\ First(ddf1).Open # 0 =>
               FEq(dpane.change1.per,
                   Fin(100 * (Last(ddf1).Close - First(ddf1).Open), First(ddf1).Open))
        /\ First(ddf2).Open # 0 =>
               FEq(dpane.change2.per,
                   Fin(100 * (Last(ddf2).Close - First(ddf2).Open), First(ddf2).Open))

\* What the code computes instead: both values are taken from the Close
\* column, the first point's close standing for the open.
ChangeFromFirstClose ==
    dpc = "drawn" =>
        /\ dpane.change1.diff = Last(ddf1).Close - First(ddf1).Close
        /\ dpane.change2.diff = Last(ddf2).Close - First(ddf2).Close
        /\ First(ddf1).Close # 0 =>
               FEq(dpane.change1.per,
                   Fin(100 * (Last(ddf1).Close - First(ddf1).Close), First(ddf1).Close))
        /\ First(ddf2).Close # 0 =>
               FEq(dpane.change2.per,
                   Fin(100 * (Last(ddf2).Close - First(ddf2).Close), First(ddf2).Close))

\* C8: a zero denominator gives the DivisionUndefined sentinel for that side;
\* no infinite or not-a-number percentage reaches the labels or the winner.
C8_ZeroDenominatorSentinel ==
    dpc = "drawn" =>
        \A c \in {dpane.change1, dpane.change2} :
            /\ c.per.kind \in {"fin", "DivisionUndefined"}
            /\ c.per.kind = "fin" => c.per.den # 0

\* C9: BEST is stock 1 exactly when its percentage is strictly greater, stock
\* 2 exactly when its percentage is strictly greater, NEITHER exactly when
\* the two are equal.
C9_WinnerStrictlyGreater ==
    dpc = "drawn" =>
        LET p1 == dpane.change1.per
            p2 == dpane.change2.per
        IN  /\ dpane.best = "stock_1_code" <=> FGt(p1, p2)
            /\ dpane.best = "stock_2_code" <=> FGt(p2, p1)
            /\ dpane.best = "NEITHER" <=> FEq(p1, p2)

\* The same statement when neither percentage is not-a-number.
WinnerWhenDefined ==
    dpc = "drawn" =>
        LET p1 == dpane.change1.per
            p2 == dpane.change2.per
        IN  (p1.kind # "nan" /\ p2.kind # "nan") =>
            /\ dpane.best = "stock_1_code" <=> FGt(p1, p2)
            /\ dpane.best = "stock_2_code" <=> FGt(p2, p1)
            /\ dpane.best = "NEITHER" <=> FEq(p1, p2)

----------------------------------------------------------------------------
(* Pipeline claims *)

\* C1: an invocation in which a download failed (URLError, or ValueError for
\* no parsed rows) has ended with the network or the invalid-stocks outcome
\* and has updated no pane, whatever periods it resolved before; when it is
\* the only invocation so far, every pane is as constructed.
C1_FailFastNoPartial ==
    \A w \in Workers :
        workers[w].failed # "none" =>
            /\ workers[w].pc = "done"
            /\ workers[w].outcome \in {"network", "invalid"}
            /\ workers[w].writes = 0
            /\ workers[w].shown = <<>>
            /\ clicks = 1 => panes = [i \in 1..NGraphs |-> NewPane]

C1_Witness ==
    \E w \in Workers :
        /\ workers[w].failed = "URLError"
        /\ workers[w].idx = 2
        /\ Len(workers[w].dfs1) = 1
        /\ Len(workers[w].dfs2) = 1
        /\ workers[w].pc = "done"
        /\ workers[w].writes = 0

\* C2: no key is downloaded successfully a second time unless its cache
\* entry expired or was evicted since the previous successful download.
C2_FetchedOncePerWindow == refetched = {}

\* C6: every ended invocation reports exactly one of success, network error
\* and invalid stocks; a URLError gives the network outcome and a ValueError
\* the invalid-stocks outcome, never the other.
C6_OutcomeDistinguished ==
    \A w \in Workers :
        workers[w].pc = "done" =>
            /\ workers[w].outcome \in {"success", "network", "invalid"}
            /\ workers[w].outcome = "network" <=> workers[w].failed = "URLError"
            /\ workers[w].outcome = "invalid" <=> workers[w].failed = "ValueError"

\* The part of C6 about telling the two failures apart.
FailureKindsNotConfused ==
    \A w \in Workers :
        workers[w].pc = "done" =>
            /\ workers[w].outcome = "network" <=> workers[w].failed = "URLError"
            /\ workers[w].outcome = "invalid" <=> workers[w].failed = "ValueError"

\* C10: a successful invocation has produced one pair per requested period,
\* and the pair drawn on pane i is titled time_periods[i] and consists of
\* the series of stock 1 and of stock 2 for time_periods[i].
C10_PairsInRequestOrder ==
    \A w \in Workers :
        workers[w].outcome = "success" =>
            LET ws == workers[w]
                n  == Len(ws.req.time_periods)
            IN  /\ Len(ws.dfs1) = n
                /\ Len(ws.dfs2) = n
                /\ Len(ws.shown) = n
                /\ \A i \in 1..n :
                    /\ ws.shown[i].title = ws.req.time_periods[i]
                    /\ ws.shown[i].src1 = <<ws.req.stock_1, ws.req.time_periods[i]>>
                    /\ ws.shown[i].src2 = <<ws.req.stock_2, ws.req.time_periods[i]>>

\* The same for an invocation that ran alone and whose two stocks have
\* different cache keys.
PairsInOrderWhenAloneAndKeysDiffer ==
    \A w \in Workers :
        (/\ workers[w].outcome = "success"
         /\ clicks = 1
         /\ \A tp \in {Period1M, Period5d} :
                CacheKey(workers[w].req.stock_1, tp) # CacheKey(workers[w].req.stock_2, tp))
        => LET ws == workers[w]
               n  == Len(ws.req.time_periods)
           IN  /\ Len(ws.dfs1) = n
               /\ Len(ws.dfs2) = n
               /\ Len(ws.shown) = n
               /\ \A i \in 1..n :
                   /\ ws.shown[i].title = ws.req.time_periods[i]
                   /\ ws.shown[i].src1 = <<ws.req.stock_1, ws.req.time_periods[i]>>
                   /\ ws.shown[i].src2 = <<ws.req.stock_2, ws.req.time_periods[i]>>

\* The title part of C10 alone: it fails when two invocations with different
\* periods overlap between lines 100 and 103.
TitlesMatchRequest ==
    \A w \in Workers :
        workers[w].outcome = "success" =>
            \A i \in 1..Len(workers[w].shown) :
                workers[w].shown[i].title = workers[w].req.time_periods[i]

\* The series part of C10 for an invocation running alone: it fails when the
\* two stocks format to the same cache key.
SeriesMatchRequestWhenAlone ==
    \A w \in Workers :
        (workers[w].outcome = "success" /\ clicks = 1) =>
            \A i \in 1..Len(workers[w].shown) :
                /\ workers[w].shown[i].src1
                       = <<workers[w].req.stock_1, workers[w].req.time_periods[i]>>
                /\ workers[w].shown[i].src2
                       = <<workers[w].req.stock_2, workers[w].req.time_periods[i]>>

\* C2 and C6 in runs without overlap, respectively without the clock moving.
FetchedOnceWhenAlone == clicks = 1 => refetched = {}

OutcomeReportedWhenClockStill == ticks = 0 => C6_OutcomeDistinguished

----------------------------------------------------------------------------
(* Further parser and pipeline claims *)

\* Seconds since the epoch of a calendar value.
EpochOf(ts) == ts.day * 86400 + ts.sec

\* C13: every successfully returned series has strictly increasing
\* timestamps, whatever the offsets and anchors of the body.
C13_TimestampsIncrease ==
    (ppc = "parsed" /\ parsed.exc = "none") =>
        \A i \in 1..(Len(parsed.df) - 1) :
            EpochOf(parsed.df[i].ts) < EpochOf(parsed.df[i + 1].ts)

\* C15: on the cache-hit path the series recorded for a side is never None,
\* whatever the interleaving, expiry or eviction.
C15_HitRecordsPresentSeries ==
    \A w \in Workers :
        /\ \A i \in 1..Len(workers[w].dfs1) : workers[w].dfs1[i] # None
        /\ \A i \in 1..Len(workers[w].dfs2) : workers[w].dfs2[i] # None

\* The same while the clock stands still (nothing expires, and with at most
\* THRESHOLD keys nothing is evicted).
HitRecordsPresentWhenClockStill == ticks = 0 => C15_HitRecordsPresentSeries

\* The (code, index, period) triples the running invocations ask for.
Triples ==
    UNION {{<<st, workers[w].req.time_periods[i]>> :
                st \in {workers[w].req.stock_1, workers[w].req.stock_2},
                i \in 1..Len(workers[w].req.time_periods)} :
           w \in {v \in Workers : workers[v].req # <<>>}}

\* C16: different (code, index, period) triples never format to the same
\* key, so the series recorded for a side always is one downloaded for that
\* side's stock and period.
C16_KeysInjective ==
    /\ \A a, b \in Triples :
           CacheKey(a[1], a[2]) = CacheKey(b[1], b[2]) => a = b
    /\ \A w \in Workers :
        LET ws == workers[w] IN
        /\ \A i \in 1..Len(ws.dfs1) :
               ws.dfs1[i] # None =>
                   ws.dfs1[i].of = <<ws.req.stock_1, ws.req.time_periods[i]>>
        /\ \A i \in 1..Len(ws.dfs2) :
               ws.dfs2[i] # None =>
                   ws.dfs2[i].of = <<ws.req.stock_2, ws.req.time_periods[i]>>

\* Injectivity over the triples whose code holds no ':'.
KeysInjectiveWithoutColonInCode ==
    \A a, b \in Triples :
        (~Contains(a[1].gf_code, ":") /\ ~Contains(b[1].gf_code, ":")
         /\ CacheKey(a[1], a[2]) = CacheKey(b[1], b[2])) => a = b

\* C14: within one invocation each (side, period) is downloaded at most
\* once, and after the first failed download the invocation performs no
\* further download, cache read or cache write.
C14_NoRetryImmediateAbort ==
    \A w \in Workers :
        /\ ~workers[w].again
        /\ workers[w].late = 0
        /\ workers[w].failed # "none" => workers[w].pc = "done"

\* An invocation that failed at the second side of period 2, after
\* downloading for earlier positions, and stopped there.
C14_Witness ==
    \E w \in Workers :
        /\ workers[w].failed # "none"
        /\ workers[w].side = 2 /\ workers[w].idx = 2
        /\ {<<1, 1>>, <<2, 2>>} \subseteq workers[w].tried
        /\ Len(workers[w].dfs1) = 2 /\ Len(workers[w].dfs2) = 1

\* What C11 says of the entries the cache holds at this instant.
ExpiryOfHeldEntries ==
    \A e \in cache :
        /\ now - e.storedAt < 86400 => CacheGet(cache, e.key, now) = e.value
        /\ now - e.storedAt > 86400 => CacheGet(cache, e.key, now) = None

\* What C11 says of one hit-or-miss decision of plot_stocks.
ExpiryDecides ==
    \A w \in Workers :
        (workers[w].pc = "check" /\ workers'[w].pc \in {"hit", "fetch"}) =>
            \A e \in cache :
                e.key = KeyOf(workers[w]) =>
                    /\ now - e.storedAt < 86400 => workers'[w].pc = "hit"
                    /\ now - e.storedAt > 86400 =>
                           /\ workers'[w].pc = "fetch"
                           /\ ~HasEntry(cache', e.key)

\* C11: an entry stored at time T is returned by get at every time t with
\* t - T < 86400 and is absent at every time t with t - T > 86400, so that
\* a compare after the expiry downloads the key again.
C11_ExpiryWindow == []ExpiryOfHeldEntries /\ [][ExpiryDecides]_vars

\* A single invocation that stored the key of period 1, found it expired at
\* period 3 (the same period again) and is about to download it again.
C11_Witness ==
    /\ clicks = 1
    /\ now > EXPIRY_SECONDS
    /\ \E w \in Workers :
        /\ workers[w].pc = "fetch"
        /\ workers[w].side = 1 /\ workers[w].idx = 3
        /\ <<1, 1>> \in workers[w].tried
        /\ workers[w].req.stock_1 = StockZ_C
        /\ workers[w].req.time_periods[3] = workers[w].req.time_periods[1]
        /\ workers[w].dfs1[1] # None

----------------------------------------------------------------------------
(* Eviction *)

Oldest(c) == CHOOSE x \in c : \A y \in c : x.storedAt <= y.storedAt

\* The entries of the cache before the last set that the set removed
\* without writing their key.
Evicted == {e \in cs.before : e.key # cs.key /\ e \notin cache}

PruneKeepsOldest ==
    /\ cs.pc = "put"
    /\ Cardinality(cs.before) > 100
    /\ Oldest(cs.before) \in cache
    /\ Evicted # {}

====
